---- MODULE Spec2Model ----
(***************************************************************************)
(* A model of fastapi-sia: the SIA v2 parameter model (models.py), the     *)
(* query translator (service.py) and the request path through the router   *)
(* (router/sia_router.py, exceptions.py, main.py, dependencies.py).        *)
(*                                                                         *)
(* Strings are sequences of one-character strings, so that str.split(),    *)
(* str.split(" "), str.strip(), len() and slicing are computed as Python   *)
(* computes them.  A Python float is a record [k, v]: k = "fin" with the   *)
(* integer value v, k = "inf" with the sign v, or k = "nan".  The literal  *)
(* strings "Inf" and "-Inf" kept by MinMaxRange are [k |-> "lit"] with     *)
(* the sign v.                                                             *)
(***************************************************************************)
EXTENDS Integers, Sequences, FiniteSets, TLC

VARIABLES
    call,       \* the function under call and its argument (pure-function runs)
    ret,        \* what the call returned or raised
    pc,         \* position of the request being handled
    req,        \* the raw query parameters of the request
    session,    \* the database session of the request
    closes,     \* how many times the session's close() has run
    executed,   \* how many statements the row store has been handed
    params,     \* the SIASearchParams handed to perform_sia_query
    query,      \* the query built by perform_sia_query
    rows,       \* the record mappings handed to generate_votable
    response,   \* the response sent to the caller
    catalog     \* the ObsCore rows held by the row store

vars ==
    <<call, ret, pc, req, session, closes, executed, params, query, rows, response,
      catalog>>

(***************************************************************************)
(* Bounds of the model                                                     *)
(***************************************************************************)
\* most whitespace-separated tokens in a generated range string
MaxTokens == 3
\* most numbers after the keyword of a generated POS string, and most
\* coordinates of a directly constructed Polygon
MaxNums == 7
\* most values of one field of a directly built SIASearchParams
MaxVals == 2

(***************************************************************************)
(* Python strings                                                          *)
(***************************************************************************)
IsWs(c) == c \in {" ", "\t"}

RECURSIVE LStrip(_)
LStrip(s) == IF s # <<>> /\ IsWs(Head(s)) THEN LStrip(Tail(s)) ELSE s

RECURSIVE RStrip(_)
RStrip(s) ==
    IF s # <<>> /\ IsWs(s[Len(s)]) THEN RStrip(SubSeq(s, 1, Len(s) - 1)) ELSE s

\* str.strip()
Strip(s) == RStrip(LStrip(s))

RECURSIVE SplitFrom(_, _, _)
SplitFrom(s, cur, acc) ==
    IF s = <<>>
    THEN (IF cur = <<>> THEN acc ELSE Append(acc, cur))
    ELSE CHOOSE r \in
            {SplitFrom(rest, c, a) :
                rest \in {Tail(s)},
                c \in {IF IsWs(Head(s)) THEN <<>> ELSE Append(cur, Head(s))},
                a \in {IF IsWs(Head(s)) /\ cur # <<>> THEN Append(acc, cur) ELSE acc}} :
            TRUE

\* str.split(): the maximal runs of non-whitespace characters
Split(s) == SplitFrom(s, <<>>, <<>>)

RECURSIVE SplitSpaceFrom(_, _, _)
SplitSpaceFrom(s, cur, acc) ==
    IF s = <<>>
    THEN Append(acc, cur)
    ELSE CHOOSE r \in
            {SplitSpaceFrom(rest, c, a) :
                rest \in {Tail(s)},
                c \in {IF Head(s) = " " THEN <<>> ELSE Append(cur, Head(s))},
                a \in {IF Head(s) = " " THEN Append(acc, cur) ELSE acc}} : TRUE

\* str.split(" "): the pieces between single space characters, empty ones kept
SplitSpace(s) == SplitSpaceFrom(s, <<>>, <<>>)

LowerChars ==
    <<"a","b","c","d","e","f","g","h","i","j","k","l","m",
      "n","o","p","q","r","s","t","u","v","w","x","y","z">>

UpperChars ==
    <<"A","B","C","D","E","F","G","H","I","J","K","L","M",
      "N","O","P","Q","R","S","T","U","V","W","X","Y","Z">>

UpperChar(c) ==
    IF \E i \in 1..26 : LowerChars[i] = c
    THEN UpperChars[CHOOSE i \in 1..26 : LowerChars[i] = c]
    ELSE c

LowerChar(c) ==
    IF \E i \in 1..26 : UpperChars[i] = c
    THEN LowerChars[CHOOSE i \in 1..26 : UpperChars[i] = c]
    ELSE c

\* str.upper()
Upper(s) == [i \in 1..Len(s) |-> UpperChar(s[i])]

Lower(s) == [i \in 1..Len(s) |-> LowerChar(s[i])]

(***************************************************************************)
(* Python floats                                                           *)
(***************************************************************************)
Fin(n) == [k |-> "fin", v |-> n]
PosInf == [k |-> "inf", v |-> 1]
NegInf == [k |-> "inf", v |-> -1]
NaN == [k |-> "nan", v |-> 0]
\* the strings "Inf" and "-Inf" of FloatOrInf
LitInf == [k |-> "lit", v |-> 1]
LitNegInf == [k |-> "lit", v |-> -1]

IsFinite(x) == x.k = "fin"

\* a <= b on floats: false as soon as one side is nan
FloatLe(a, b) ==
    /\ a.k # "nan"
    /\ b.k # "nan"
    /\ IF a.k = "inf" THEN a.v = -1 \/ (b.k = "inf" /\ b.v = 1)
       ELSE IF b.k = "inf" THEN b.v = 1
       ELSE a.v <= b.v

Ok(x) == [err |-> "none", val |-> x]
Raise(e) == [err |-> e, val |-> <<>>]

DigitChars == <<"0","1","2","3","4","5","6","7","8","9">>

IsDigit(c) == \E i \in 1..10 : DigitChars[i] = c

DigitVal(c) == (CHOOSE i \in 1..10 : DigitChars[i] = c) - 1

RECURSIVE NatVal(_, _)
NatVal(s, acc) ==
    IF s = <<>> THEN acc ELSE NatVal(Tail(s), 10 * acc + DigitVal(Head(s)))

AllDigits(s) == s # <<>> /\ \A i \in 1..Len(s) : IsDigit(s[i])

\* float(token) on the characters the inputs are built from (no "." and no
\* exponent): surrounding whitespace is stripped, a sign is optional, the
\* words inf, infinity and nan are accepted in any case.
float_stripped(t) ==
    LET signed == t # <<>> /\ Head(t) \in {"-", "+"}
        sign == IF t # <<>> /\ Head(t) = "-" THEN -1 ELSE 1
        body == IF signed THEN Tail(t) ELSE t
        low == Lower(body)
    IN  IF AllDigits(body) THEN Ok(Fin(sign * NatVal(body, 0)))
        ELSE IF low \in {<<"i","n","f">>, <<"i","n","f","i","n","i","t","y">>}
             THEN Ok([k |-> "inf", v |-> sign])
        ELSE IF low = <<"n","a","n">> THEN Ok(NaN)
        ELSE Raise("ValueError")

\* t is tok.strip(), worked out once
float(tok) == CHOOSE r \in {float_stripped(t) : t \in {Strip(tok)}} : TRUE

(***************************************************************************)
(* models.py: MinMaxRange                                                  *)
(***************************************************************************)
MinMaxRange_parse_token(token) ==
    IF token = <<"I","n","f">> THEN Ok(LitInf)
    ELSE IF token = <<"-","I","n","f">> THEN Ok(LitNegInf)
    ELSE float(token)

\* from_string once tokens = s.strip().split() is known
MinMaxRange_from_tokens(tokens) ==
    IF Len(tokens) # 2 THEN Raise("ValueError")
    ELSE LET min_val == MinMaxRange_parse_token(tokens[1])
             max_val == MinMaxRange_parse_token(tokens[2])
         IN  IF min_val.err # "none" THEN min_val
             ELSE IF max_val.err # "none" THEN max_val
             ELSE Ok([min |-> min_val.val, max |-> max_val.val])

MinMaxRange_from_string(s) ==
    CHOOSE r \in {MinMaxRange_from_tokens(tokens) : tokens \in {Split(Strip(s))}} : TRUE

(***************************************************************************)
(* models.py: Circle, Range, Polygon and parse_pos                         *)
(***************************************************************************)
LonInBounds(x) == FloatLe(Fin(0), x) /\ FloatLe(x, Fin(360))

LatInBounds(x) == FloatLe(Fin(-90), x) /\ FloatLe(x, Fin(90))

\* Polygon(coordinates=coords): validate_polygon looks at the length only
Polygon(coords) ==
    IF Len(coords) < 6 \/ Len(coords) % 2 # 0
    THEN Raise("ValidationError")
    ELSE Ok([shape |-> "POLYGON", coordinates |-> coords])

\* Range(lon1=, lon2=, lat1=, lat2=) with check_bounds
Range(lon1, lon2, lat1, lat2) ==
    IF ~LonInBounds(lon1) \/ ~LonInBounds(lon2) THEN Raise("ValidationError")
    ELSE IF ~LatInBounds(lat1) \/ ~LatInBounds(lat2) THEN Raise("ValidationError")
    ELSE Ok([shape |-> "RANGE", lon1 |-> lon1, lon2 |-> lon2,
             lat1 |-> lat1, lat2 |-> lat2])

\* Circle(longitude=, latitude=, radius=) with check_bounds
Circle(lon, lat, radius) ==
    IF ~LonInBounds(lon) THEN Raise("ValidationError")
    ELSE IF ~LatInBounds(lat) THEN Raise("ValidationError")
    ELSE Ok([shape |-> "CIRCLE", longitude |-> lon, latitude |-> lat,
             radius |-> radius])

KwCircle == <<"C","I","R","C","L","E">>
KwRange == <<"R","A","N","G","E">>
KwPolygon == <<"P","O","L","Y","G","O","N">>

\* map(float, parts.split(" ")): the floats, or the first failure
MapFloat(pieces) ==
    IF \E i \in 1..Len(pieces) : float(pieces[i]).err # "none"
    THEN Raise("ValueError")
    ELSE Ok([i \in 1..Len(pieces) |-> float(pieces[i]).val])

\* parse_pos(pos_str).  Unpacking a map of the wrong length raises
\* ValueError, as a failing float() does.
parse_pos_shape(shape, nums) ==
    IF shape = KwCircle THEN
        IF nums.err # "none" \/ Len(nums.val) # 3 THEN Raise("ValueError")
        ELSE Circle(nums.val[1], nums.val[2], nums.val[3])
    ELSE IF shape = KwRange THEN
        IF nums.err # "none" \/ Len(nums.val) # 4 THEN Raise("ValueError")
        ELSE Range(nums.val[1], nums.val[2], nums.val[3], nums.val[4])
    ELSE IF shape = KwPolygon THEN
        IF nums.err # "none" THEN Raise("ValueError")
        ELSE Polygon(nums.val)
    ELSE Raise("ValueError")

\* parts = pos_str[len(shape):].strip(), then map(float, parts.split(" "))
parse_pos_parts(shape, pos_str) ==
    CHOOSE r \in
        {parse_pos_shape(shape, nums) :
            nums \in {MapFloat(pieces) :
                        pieces \in {SplitSpace(Strip(SubSeq(pos_str, Len(shape) + 1,
                                                            Len(pos_str))))}}} : TRUE

\* shape = pos_str.split()[0].upper()
parse_pos(pos_str) ==
    IF Split(pos_str) = <<>> THEN Raise("IndexError")
    ELSE CHOOSE r \in {parse_pos_parts(shape, pos_str) :
                          shape \in {Upper(Split(pos_str)[1])}} : TRUE

(***************************************************************************)
(* models.py: Time and SIASearchParams                                     *)
(***************************************************************************)
\* Optional[...]: None, or a value
Absent == [some |-> FALSE, v |-> <<>>]
Some(x) == [some |-> TRUE, v |-> x]
\* None where an int (MAXREC) or a float (Time.end_time) may stand
NoInt == [some |-> FALSE, v |-> 0]
NoFloat == [some |-> FALSE, v |-> [k |-> "fin", v |-> 0]]

Str(s) == [k |-> "str", v |-> s]
Null == [k |-> "null", v |-> 0]

RangeFields == {"BAND", "FOV", "SPATRES", "SPECRP", "EXPTIME", "TIMERES"}

EnumFields ==
    {"POL", "ID", "COLLECTION", "FACILITY", "INSTRUMENT", "DPTYPE", "CALIB",
     "TARGET", "FORMAT"}

ListFields == {"POS", "TIME"} \cup RangeFields \cup EnumFields

\* SIASearchParams() with every field left at its default
AllAbsent ==
    [f \in ListFields \cup {"MAXREC"} |-> IF f = "MAXREC" THEN NoInt ELSE Absent]

\* Time.from_string with `len(tokens) >= 2` for `len(tokens) == 2`
Time_from_string_lenient(s) ==
    LET tokens == Split(Strip(s))
    IN  IF Len(tokens) = 1 THEN
            IF float(tokens[1]).err # "none" THEN Raise("ValueError")
            ELSE Ok([start_time |-> float(tokens[1]).val, end_time |-> NoFloat])
        ELSE IF Len(tokens) >= 2 THEN
            IF float(tokens[1]).err # "none" \/ float(tokens[2]).err # "none"
            THEN Raise("ValueError")
            ELSE Ok([start_time |-> float(tokens[1]).val,
                     end_time |-> Some(float(tokens[2]).val)])
        ELSE Raise("ValueError")

\* Time.from_string once tokens = s.strip().split() is known
Time_from_tokens(tokens) ==
    IF Len(tokens) = 1 THEN
        IF float(tokens[1]).err # "none" THEN Raise("ValueError")
        ELSE Ok([start_time |-> float(tokens[1]).val, end_time |-> NoFloat])
    ELSE IF Len(tokens) = 2 THEN
        IF float(tokens[1]).err # "none" \/ float(tokens[2]).err # "none"
        THEN Raise("ValueError")
        ELSE Ok([start_time |-> float(tokens[1]).val,
                 end_time |-> Some(float(tokens[2]).val)])
    ELSE Raise("ValueError")

\* Time.from_string(s)
Time_from_string(s) ==
    CHOOSE r \in {Time_from_tokens(tokens) : tokens \in {Split(Strip(s))}} : TRUE

PolarizationLabels ==
    {"I", "Q", "U", "V", "RR", "LL", "RL", "LR", "XX", "YY", "XY", "YX", "POLI", "POLA"}

DataProductType == {"image", "cube"}

\* InEnum with every token taken
InEnumLenient(E, x) == Ok(Str(x))

InEnum(E, x) == IF x \in E THEN Ok(Str(x)) ELSE Raise("ValueError")

\* what the validation of field f makes of one value
FieldValue(f, x) ==
    IF f = "POS" THEN parse_pos(x)
    ELSE IF f \in RangeFields THEN MinMaxRange_from_string(x)
    ELSE IF f = "TIME" THEN Time_from_string(x)
    ELSE IF f = "POL" THEN InEnum(PolarizationLabels, x)
    ELSE IF f = "DPTYPE" THEN InEnum(DataProductType, x)
    ELSE IF f = "CALIB" THEN (IF x \in {1, 2, 3} THEN Ok(Fin(x)) ELSE Raise("ValueError"))
    ELSE Ok(Str(x))

\* the results of validating the values of one field, taken in order: the
\* first failure ends the validation, else the list of the values made
FirstFailure(rs) ==
    LET bad == {i \in 1..Len(rs) : rs[i].err # "none"}
    IN  IF bad # {}
        THEN Raise(rs[CHOOSE i \in bad : \A j \in bad : i <= j].err)
        ELSE Ok(Some([i \in 1..Len(rs) |-> rs[i].val]))

\* the validation of one field of SIASearchParams: None stays None; each
\* value is validated once, rs holding the results in order
ValidateField(f, opt) ==
    IF ~opt.some THEN Ok(Absent)
    ELSE CHOOSE r \in
            {FirstFailure(rs) :
                rs \in {[i \in 1..Len(opt.v) |->
                            CHOOSE v \in {FieldValue(f, x) : x \in {opt.v[i]}} : TRUE]
                        @@ <<>>}} : TRUE

\* what pydantic makes of the results rs of the field validators: an exception
\* a validator lets through (the IndexError of parse_pos, POS being validated
\* first) leaves as it is; every ValueError is gathered into one pydantic
\* ValidationError, as is a MAXREC below 0.
GatherErrors(args, rs) ==
    IF rs["POS"].err \notin {"none", "ValueError", "ValidationError"}
    THEN Raise(rs["POS"].err)
    ELSE IF (\E f \in ListFields : rs[f].err # "none")
            \/ (args.MAXREC.some /\ args.MAXREC.v < 0)
    THEN Raise("ValidationError")
    ELSE Ok([f \in ListFields \cup {"MAXREC"} |->
                IF f = "MAXREC" THEN args.MAXREC ELSE rs[f].val])

\* SIASearchParams(POS=..., ..., MAXREC=...): each field validator runs once,
\* rs holding its result
SIASearchParams(args) ==
    CHOOSE r \in
        {GatherErrors(args, rs) :
            rs \in {[f \in ListFields |-> ValidateField(f, args[f])] @@ <<>>}} : TRUE

(***************************************************************************)
(* service.py: perform_sia_query                                           *)
(***************************************************************************)
\* the ObsCore column each parameter is compared with
ColumnOf ==
    [f \in RangeFields \cup EnumFields |->
        CASE f = "BAND" -> "em_min"
          [] f = "FOV" -> "s_fov"
          [] f = "SPATRES" -> "s_resolution"
          [] f = "SPECRP" -> "em_res_power"
          [] f = "EXPTIME" -> "t_exptime"
          [] f = "TIMERES" -> "t_resolution"
          [] f = "POL" -> "pol_states"
          [] f = "ID" -> "obs_id"
          [] f = "COLLECTION" -> "obs_collection"
          [] f = "FACILITY" -> "facility_name"
          [] f = "INSTRUMENT" -> "instrument_name"
          [] f = "DPTYPE" -> "dataproduct_type"
          [] f = "CALIB" -> "calib_level"
          [] f = "TARGET" -> "target_name"
          [] f = "FORMAT" -> "access_format"]

\* the order of the if statements of perform_sia_query
FilterOrder ==
    <<"POS", "BAND", "TIME", "FOV", "SPATRES", "SPECRP", "EXPTIME", "TIMERES",
      "POL", "ID", "COLLECTION", "FACILITY", "INSTRUMENT", "DPTYPE", "CALIB",
      "TARGET", "FORMAT">>

And(cs) == [op |-> "and", args |-> cs]
Or(cs) == [op |-> "or", args |-> cs]
Ge(col, x) == [op |-> ">=", col |-> col, val |-> x]
Le(col, x) == [op |-> "<=", col |-> col, val |-> x]
Eq(col, x) == [op |-> "=", col |-> col, val |-> x]
Text(fn, as) == [op |-> "text", fn |-> fn, args |-> as]

\* float(x) of a FloatOrInf: float("Inf") and float("-Inf") are the infinities
PyFloat(x) == IF x.k = "lit" THEN [k |-> "inf", v |-> x.v] ELSE x

\* MinmaxClause with the test of min made against "Inf"
MinmaxClauseWrongLiteral(field, r) ==
    LET low == IF r.min = LitInf THEN NegInf ELSE PyFloat(r.min)
        high == IF r.max = LitInf THEN PosInf ELSE PyFloat(r.max)
    IN  And(<<Ge(field, low), Le(field, high)>>)

MinmaxClause(field, r) ==
    LET low == IF r.min = LitNegInf THEN NegInf ELSE PyFloat(r.min)
        high == IF r.max = LitInf THEN PosInf ELSE PyFloat(r.max)
    IN  And(<<Ge(field, low), Le(field, high)>>)

apply_minmax_filter(field, ranges) ==
    Or([i \in 1..Len(ranges) |-> MinmaxClause(field, ranges[i])])

\* apply_enum_filter with and_ for or_
apply_enum_filter_and(field, values) ==
    And([i \in 1..Len(values) |-> Eq(field, values[i])])

apply_enum_filter(field, values) ==
    Or([i \in 1..Len(values) |-> Eq(field, values[i])])

Abs(n) == IF n < 0 THEN -n ELSE n

\* PosClause with the widths of the box left signed (no abs)
PosClauseSignedWidth(pos) ==
    IF pos.shape = "CIRCLE"
    THEN Text("q3c_radial_query", <<pos.longitude, pos.latitude, pos.radius>>)
    ELSE IF pos.shape = "RANGE"
    THEN Text("q3c_box_query",
              <<Fin(pos.lon1.v + pos.lon2.v), Fin(pos.lat1.v + pos.lat2.v),
                Fin(pos.lon2.v - pos.lon1.v), Fin(pos.lat2.v - pos.lat1.v)>>)
    ELSE Text("q3c_poly_query",
              [i \in 1..(Len(pos.coordinates) \div 2) |->
                  <<pos.coordinates[2 * i - 1], pos.coordinates[2 * i]>>])

\* The arguments of q3c_box_query are halves of integers here: each is kept
\* as twice its value, (lon1 + lon2) for the centre (lon1 + lon2) / 2 and
\* |lon2 - lon1| for the half width |lon2 - lon1| / 2.
PosClause(pos) ==
    IF pos.shape = "CIRCLE"
    THEN Text("q3c_radial_query", <<pos.longitude, pos.latitude, pos.radius>>)
    ELSE IF pos.shape = "RANGE"
    THEN Text("q3c_box_query",
              <<Fin(pos.lon1.v + pos.lon2.v), Fin(pos.lat1.v + pos.lat2.v),
                Fin(Abs(pos.lon2.v - pos.lon1.v)), Fin(Abs(pos.lat2.v - pos.lat1.v))>>)
    ELSE Text("q3c_poly_query",
              [i \in 1..(Len(pos.coordinates) \div 2) |->
                  <<pos.coordinates[2 * i - 1], pos.coordinates[2 * i]>>])

apply_pos_filter(pos_list) ==
    Or([i \in 1..Len(pos_list) |-> PosClause(pos_list[i])])

\* TimeClause with `if t.end_time:` for `if t.end_time is not None:`
TimeClauseTruthyEnd(t) ==
    IF t.end_time.some /\ t.end_time.v.v # 0
    THEN And(<<Ge("t_max", t.start_time), Le("t_min", t.end_time.v)>>)
    ELSE Ge("t_max", t.start_time)

TimeClause(t) ==
    IF t.end_time.some
    THEN And(<<Ge("t_max", t.start_time), Le("t_min", t.end_time.v)>>)
    ELSE Ge("t_max", t.start_time)

apply_time_filter(times) ==
    Or([i \in 1..Len(times) |-> TimeClause(times[i])])

\* Truthy with `is not None` for the truth test
TruthyIsNotNone(opt) == opt.some

\* `if sia_search_params.X:` on an Optional[list]
Truthy(opt) == opt.some /\ opt.v # <<>>

\* `if sia_search_params.MAXREC:` on an Optional[int]
MaxrecTruthy(opt) == opt.some /\ opt.v # 0

FilterFor(f, values) ==
    IF f = "POS" THEN apply_pos_filter(values)
    ELSE IF f = "TIME" THEN apply_time_filter(values)
    ELSE IF f \in RangeFields THEN apply_minmax_filter(ColumnOf[f], values)
    ELSE apply_enum_filter(ColumnOf[f], values)

RECURSIVE FiltersFrom(_, _)
FiltersFrom(p, i) ==
    IF i > Len(FilterOrder) THEN <<>>
    ELSE (IF Truthy(p[FilterOrder[i]])
          THEN <<FilterFor(FilterOrder[i], p[FilterOrder[i]].v)>>
          ELSE <<>>) \o FiltersFrom(p, i + 1)

\* the query perform_sia_query builds: session.query(ObsCore), one
\* .filter() for each field that passes its if, and the .limit()
BuildQuery(p) ==
    [filters |-> FiltersFrom(p, 1),
     limit |-> IF MaxrecTruthy(p.MAXREC) THEN Some(p.MAXREC.v) ELSE NoInt]

(***************************************************************************)
(* The row store: what the query's clauses mean on an ObsCore row.  A      *)
(* comparison with a NULL column is not true, and no clause is negated.    *)
(***************************************************************************)
\* even-odd crossing test of the point (x, y) against the edge a -> b
Crosses(x, y, a, b) ==
    /\ (a[2] > y) # (b[2] > y)
    /\ LET d == b[2] - a[2]
           lhs == (x - a[1]) * d
           rhs == (b[1] - a[1]) * (y - a[2])
       IN  IF d > 0 THEN lhs < rhs ELSE lhs > rhs

InPolygon(x, y, vs) ==
    LET n == Len(vs)
        crossing == {i \in 1..n : Crosses(x, y, vs[i], vs[(i % n) + 1])}
    IN  Cardinality(crossing) % 2 = 1

RegionQuery(fn, as, row) ==
    /\ row.s_ra.k = "fin"
    /\ row.s_dec.k = "fin"
    /\ LET ra == row.s_ra.v
           dec == row.s_dec.v
       IN  CASE fn = "q3c_radial_query" ->
                    (ra - as[1].v) * (ra - as[1].v) + (dec - as[2].v) * (dec - as[2].v)
                        <= as[3].v * as[3].v
             [] fn = "q3c_box_query" ->
                    /\ Abs(2 * ra - as[1].v) <= as[3].v
                    /\ Abs(2 * dec - as[2].v) <= as[4].v
             [] fn = "q3c_poly_query" ->
                    InPolygon(ra, dec, [i \in 1..Len(as) |-> <<as[i][1].v, as[i][2].v>>])

\* the columns a clause reads
RECURSIVE Columns(_)
Columns(node) ==
    IF node.op \in {"and", "or"}
    THEN UNION {Columns(node.args[i]) : i \in 1..Len(node.args)}
    ELSE IF node.op = "text" THEN {"s_ra", "s_dec"}
    ELSE {node.col}

\* a <= b on float8 columns: the store orders NaN above every other value
SqlLe(a, b) ==
    IF b.k = "nan" THEN TRUE
    ELSE IF a.k = "nan" THEN FALSE
    ELSE FloatLe(a, b)

RECURSIVE Eval(_, _)
Eval(node, row) ==
    CASE node.op = "and" -> \A i \in 1..Len(node.args) : Eval(node.args[i], row)
      [] node.op = "or" -> \E i \in 1..Len(node.args) : Eval(node.args[i], row)
      [] node.op = ">=" -> row[node.col].k = "fin" /\ SqlLe(node.val, row[node.col])
      [] node.op = "<=" -> row[node.col].k = "fin" /\ SqlLe(row[node.col], node.val)
      [] node.op = "=" -> row[node.col].k = node.val.k /\ row[node.col].v = node.val.v
      [] node.op = "text" -> RegionQuery(node.fn, node.args, row)

\* the rows of the catalog that pass every .filter() of the query
Matching(q, cat) ==
    {row \in cat : \A i \in 1..Len(q.filters) : Eval(q.filters[i], row)}

\* .limit(n) on the matching rows m: any n of them, all if there are fewer
Limited(m, n) ==
    {S \in SUBSET m : Cardinality(S) = IF n < Cardinality(m) THEN n ELSE Cardinality(m)}

\* query.all(): every matching row, or with .limit(n) any n of them
QueryAll(q, cat) ==
    IF q.limit.some
    THEN UNION {Limited(m, q.limit.v) : m \in {Matching(q, cat)}}
    ELSE {Matching(q, cat)}

RECURSIVE RowList(_)
RowList(S) ==
    IF S = {} THEN <<>>
    ELSE CHOOSE l \in
             {<<r>> \o RowList(S \ {r}) :
                 r \in {CHOOSE x \in S : \A y \in S : x.id <= y.id}} : TRUE

\* row.__dict__: the columns and the ORM's own entry
RowDict(row) ==
    [key \in DOMAIN row \cup {"_sa_instance_state"} |->
        IF key = "_sa_instance_state" THEN Str("InstanceState") ELSE row[key]]

\* dict.pop(key, None)
Pop(d, key) == [x \in DOMAIN d \ {key} |-> d[x]]

\* rows = [row.__dict__ for row in query.all()], then the pop on each
RowMappings(rs) ==
    [i \in 1..Len(rs) |-> Pop(RowDict(rs[i]), "_sa_i nstance_state")]

\* generate_votable(rows)
generate_votable(rs) ==
    IF rs = <<>>
    THEN [status |-> 200, kind |-> "votable-empty", messages |-> 0]
    ELSE [status |-> 200, kind |-> "votable", messages |-> 0]

\* the numbers written into the text() clauses of the query
TextNumbers(q) ==
    UNION {UNION {IF q.filters[i].args[j].fn = "q3c_poly_query"
                  THEN UNION {{q.filters[i].args[j].args[n][1], q.filters[i].args[j].args[n][2]} :
                                n \in 1..Len(q.filters[i].args[j].args)}
                  ELSE {q.filters[i].args[j].args[n] : n \in 1..Len(q.filters[i].args[j].args)} :
                  j \in 1..Len(q.filters[i].args)} :
           i \in {n \in 1..Len(q.filters) : Columns(q.filters[n]) = {"s_ra", "s_dec"}}}

\* nan and inf are formatted into the SQL text as they are, and the store
\* refuses the statement
StoreRefuses(q) == \E x \in TextNumbers(q) : x.k # "fin"

\* rows = [row.__dict__ for row in query.all()] with the pop, then
\* generate_votable(rows): the outcomes the store allows
QueryOutcomes(q, cat) ==
    IF StoreRefuses(q)
    THEN {[err |-> "ProgrammingError", rows |-> <<>>]}
    ELSE {[err |-> "none", rows |-> RowMappings(l)] :
             l \in {RowList(S) : S \in QueryAll(q, cat)}}

(***************************************************************************)
(* The catalog of the runs: five ObsCore rows                              *)
(***************************************************************************)
Row1 ==
    [id |-> 1, s_ra |-> Fin(10), s_dec |-> Fin(10),
     em_min |-> Fin(1), s_fov |-> Fin(3), s_resolution |-> Fin(0),
     em_res_power |-> Fin(5), t_exptime |-> Fin(7), t_resolution |-> Fin(2),
     t_min |-> Fin(3), t_max |-> Fin(8), pol_states |-> Str("I"),
     obs_id |-> Str("obs-1"), obs_collection |-> Str("SurveyA"),
     facility_name |-> Str("HST"), instrument_name |-> Str("ACS"),
     dataproduct_type |-> Str("image"), calib_level |-> Fin(1),
     target_name |-> Str("M31"), access_format |-> Str("image/fits")]

Row2 ==
    [id |-> 2, s_ra |-> Fin(50), s_dec |-> Fin(-20),
     em_min |-> Fin(2), s_fov |-> Fin(5), s_resolution |-> Fin(1),
     em_res_power |-> Fin(7), t_exptime |-> Fin(0), t_resolution |-> Fin(3),
     t_min |-> Fin(0), t_max |-> Fin(0), pol_states |-> Str("LR"),
     obs_id |-> Str("obs-2"), obs_collection |-> Str("SurveyB"),
     facility_name |-> Str("JWST"), instrument_name |-> Str("NIRCam"),
     dataproduct_type |-> Str("cube"), calib_level |-> Fin(2),
     target_name |-> Str("M42"), access_format |-> Str("image/jpeg")]

Row3 ==
    [id |-> 3, s_ra |-> Fin(200), s_dec |-> Fin(45),
     em_min |-> Fin(3), s_fov |-> Fin(7), s_resolution |-> Fin(2),
     em_res_power |-> Fin(0), t_exptime |-> Fin(1), t_resolution |-> Fin(5),
     t_min |-> Fin(9), t_max |-> Fin(12), pol_states |-> Str("Q"),
     obs_id |-> Str("obs-3"), obs_collection |-> Str("DeepSky"),
     facility_name |-> Str("Chandra"), instrument_name |-> Str("HRC"),
     dataproduct_type |-> Str("spectrum"), calib_level |-> Fin(3),
     target_name |-> Str("M1"), access_format |-> Str("text/csv")]

Row4 ==
    [id |-> 4, s_ra |-> Fin(15), s_dec |-> Fin(12),
     em_min |-> Fin(5), s_fov |-> Fin(0), s_resolution |-> Fin(3),
     em_res_power |-> Fin(1), t_exptime |-> Fin(2), t_resolution |-> Null,
     t_min |-> Fin(-5), t_max |-> Fin(-1), pol_states |-> Str("I"),
     obs_id |-> Str("obs-4"), obs_collection |-> Str("SurveyA"),
     facility_name |-> Str("JWST"), instrument_name |-> Str("ACS"),
     dataproduct_type |-> Str("cube"), calib_level |-> Fin(2),
     target_name |-> Str("M31"), access_format |-> Str("image/fits")]

Row5 ==
    [id |-> 5, s_ra |-> Null, s_dec |-> Null,
     em_min |-> Null, s_fov |-> Fin(1), s_resolution |-> Fin(5),
     em_res_power |-> Null, t_exptime |-> Null, t_resolution |-> Fin(0),
     t_min |-> Null, t_max |-> Null, pol_states |-> Null,
     obs_id |-> Str("obs-5"), obs_collection |-> Str("SurveyB"),
     facility_name |-> Null, instrument_name |-> Null,
     dataproduct_type |-> Null, calib_level |-> Fin(1),
     target_name |-> Null, access_format |-> Null]

AllRows == {Row1, Row2, Row3, Row4, Row5}

Catalogs == {{}, {Row2, Row5}, AllRows}

(***************************************************************************)
(* Directly built SIASearchParams, the inputs of perform_sia_query         *)
(***************************************************************************)
CircleA == [shape |-> "CIRCLE", longitude |-> Fin(10), latitude |-> Fin(10),
            radius |-> Fin(3)]

RangeB == [shape |-> "RANGE", lon1 |-> Fin(60), lon2 |-> Fin(40),
           lat1 |-> Fin(-30), lat2 |-> Fin(0)]

PolygonP == [shape |-> "POLYGON",
             coordinates |-> <<Fin(0), Fin(0), Fin(30), Fin(0), Fin(0), Fin(30)>>]

MinMax(lo, hi) == [min |-> lo, max |-> hi]

Time(start, end) == [start_time |-> start, end_time |-> end]

Samples(f) ==
    CASE f = "POS" -> {CircleA, RangeB, PolygonP}
      [] f = "BAND" -> {MinMax(Fin(1), Fin(2)), MinMax(Fin(5), LitInf),
                        MinMax(LitNegInf, Fin(2)), MinMax(LitInf, Fin(5)),
                        MinMax(Fin(3), PosInf)}
      [] f \in RangeFields \ {"BAND"} -> {MinMax(Fin(1), Fin(2)), MinMax(Fin(5), LitInf)}
      [] f = "TIME" -> {Time(Fin(0), NoFloat), Time(Fin(0), Some(Fin(0))),
                        Time(Fin(5), Some(Fin(9))), Time(Fin(9), NoFloat)}
      [] f = "POL" -> {Str("I"), Str("LR")}
      [] f = "ID" -> {Str("obs-1"), Str("obs-2")}
      [] f = "COLLECTION" -> {Str("SurveyA"), Str("SurveyB")}
      [] f = "FACILITY" -> {Str("HST"), Str("JWST")}
      [] f = "INSTRUMENT" -> {Str("ACS"), Str("NIRCam")}
      [] f = "DPTYPE" -> {Str("image"), Str("cube")}
      [] f = "CALIB" -> {Fin(1), Fin(2)}
      [] f = "TARGET" -> {Str("M31"), Str("M42")}
      [] f = "FORMAT" -> {Str("image/fits"), Str("image/jpeg")}

\* a field left out, given an empty list, or given up to MaxVals values
FieldChoices(f) ==
    {Absent} \cup {Some(l) : l \in UNION {[1..n -> Samples(f)] : n \in 0..MaxVals}}

\* a second field set beside the first
SecondChoices ==
    {<<"COLLECTION", Absent>>,
     <<"COLLECTION", Some(<<Str("SurveyA"), Str("SurveyB")>>)>>,
     <<"COLLECTION", Some(<<>>)>>,
     <<"POS", Some(<<CircleA>>)>>,
     <<"TIME", Some(<<Time(Fin(5), Some(Fin(9)))>>)>>,
     <<"BAND", Some(<<MinMax(Fin(1), Fin(2)), MinMax(Fin(5), LitInf)>>)>>,
     <<"CALIB", Some(<<Fin(2)>>)>>}

MaxrecChoices == {NoInt, Some(0), Some(1), Some(2), Some(100)}

ParamsWith(f) ==
    {[[AllAbsent EXCEPT ![sc[1]] = sc[2]] EXCEPT ![f] = fc, !["MAXREC"] = m] :
        fc \in FieldChoices(f), sc \in SecondChoices, m \in MaxrecChoices}

ParamSets == UNION {ParamsWith(f) : f \in ListFields}

(***************************************************************************)
(* Inputs of the pure-function runs                                        *)
(***************************************************************************)
RECURSIVE Join(_, _)
Join(toks, sep) ==
    IF toks = <<>> THEN <<>>
    ELSE IF Len(toks) = 1 THEN toks[1]
    ELSE toks[1] \o sep \o Join(Tail(toks), sep)

Separators == {<<" ">>, <<" ", " ">>, <<"\t">>}

\* <<leading, trailing>> whitespace
Paddings == {<< <<>>, <<>> >>, << <<" ">>, <<>> >>, << <<>>, <<" ">> >>}

RangeAtoms ==
    {<<"1">>, <<"5">>, <<"I","n","f">>, <<"-","I","n","f">>,
     <<"i","n","f">>, <<"n","a","n">>, <<"a","b","c">>}

RangeStrings ==
    {pad[1] \o Join(ts, sep) \o pad[2] :
        ts \in UNION {[1..n -> RangeAtoms] : n \in 0..MaxTokens},
        sep \in Separators, pad \in Paddings}

TimeAtoms ==
    {<<"0">>, <<"5">>, <<"-","5">>, <<"i","n","f">>, <<"n","a","n">>,
     <<"a","b","c">>, <<"5","x">>}

TimeStrings ==
    {pad[1] \o Join(ts, sep) \o pad[2] :
        ts \in UNION {[1..n -> TimeAtoms] : n \in 0..MaxTokens},
        sep \in Separators, pad \in Paddings}

PosKeywords ==
    {KwCircle, <<"c","i","r","c","l","e">>, KwRange, KwPolygon, <<"B","O","X">>}

NumTen == <<"1","0">>

PosOddAtoms == {<<"4","0","0">>, <<"-","1","0","0">>, <<"n","a","n">>, <<"x">>}

\* n numbers, all 10 but at most one
PosNumberLists(n) ==
    {[i \in 1..n |-> NumTen]}
    \cup {[i \in 1..n |-> IF i = j THEN odd ELSE NumTen] :
            j \in 1..n, odd \in PosOddAtoms}

PosStrings ==
    {<<>>, <<" ">>}
    \cup {pad[1] \o Join(<<kw>> \o ns, sep) \o pad[2] :
            kw \in PosKeywords,
            ns \in UNION {PosNumberLists(n) : n \in 0..MaxNums},
            sep \in Separators, pad \in Paddings}

ShapeNumbers == {Fin(0), Fin(10), Fin(360), Fin(400), Fin(-90), Fin(-100), NaN}

PolygonNumbers == {Fin(10), Fin(400), Fin(-100)}

NoRet == [err |-> "pending", val |-> <<>>]

RangeCalls == {[op |-> "MinMaxRange.from_string", arg |-> s] : s \in RangeStrings}

TimeCalls == {[op |-> "Time.from_string", arg |-> s] : s \in TimeStrings}

\* the calls SIASearchParams(POL=..., DPTYPE=..., CALIB=..., MAXREC=...)
ParamsCalls ==
    {[op |-> "SIASearchParams",
      arg |-> [AllAbsent EXCEPT !["POL"] = pol, !["DPTYPE"] = dp, !["CALIB"] = cal,
                                !["MAXREC"] = m]] :
        pol \in {Absent, Some(<<"LR", "YX">>), Some(<<"I", "ZZ">>)}
                 \cup {Some(<<x>>) :
                          x \in {"I", "Q", "U", "V", "RR", "LL", "RL", "LR", "XX", "YY",
                                 "XY", "YX", "POLI", "POLA", "ZZ", "i", "POL", "Stokes"}},
        dp \in {Absent, Some(<<"image">>), Some(<<"cube">>), Some(<<"image", "cube">>),
                Some(<<"spectrum">>), Some(<<"IMAGE">>), Some(<<"image", "timeseries">>)},
        cal \in {Absent, Some(<<1>>), Some(<<2>>), Some(<<3>>), Some(<<2, 3>>),
                 Some(<<0>>), Some(<<4>>), Some(<<1, 5>>), Some(<<-1>>)},
        m \in {NoInt, Some(0), Some(7), Some(-1)}}

PosCalls ==
    {[op |-> "parse_pos", arg |-> s] : s \in PosStrings}
    \cup {[op |-> "Circle", arg |-> <<lon, lat, Fin(1)>>] :
            lon \in ShapeNumbers, lat \in ShapeNumbers}
    \cup {[op |-> "Range", arg |-> <<lon1, Fin(10), lat1, lat2>>] :
            lon1 \in ShapeNumbers, lat1 \in ShapeNumbers, lat2 \in {Fin(10), Fin(-100)}}
    \cup {[op |-> "Polygon", arg |-> cs] :
            cs \in UNION {[1..n -> PolygonNumbers] : n \in 4..MaxNums}}

(***************************************************************************)
(* The request path: placeholders of a run that handles no request         *)
(***************************************************************************)
NoRequest == [f \in ListFields \cup {"MAXREC"} |-> Absent]
NoParams == AllAbsent
NoQuery == [filters |-> <<>>, limit |-> NoInt]
NoResponse == [status |-> 0, kind |-> "none", messages |-> 0]

FlowIdle ==
    /\ pc = "idle"
    /\ req = NoRequest
    /\ session = "none"
    /\ closes = 0
    /\ executed = 0
    /\ params = NoParams
    /\ query = NoQuery
    /\ rows = <<>>
    /\ response = NoResponse
    /\ catalog = {}

flowvars ==
    <<pc, req, session, closes, executed, params, query, rows, response, catalog>>

(***************************************************************************)
(* Pure-function runs                                                      *)
(***************************************************************************)
FromStringCall ==
    /\ call.op = "MinMaxRange.from_string"
    /\ ret = NoRet
    /\ ret' = MinMaxRange_from_string(call.arg)
    /\ UNCHANGED <<call, flowvars>>

InitRange == call \in RangeCalls /\ ret = NoRet /\ FlowIdle

NextRange == FromStringCall

SpecRange == InitRange /\ [][NextRange]_vars

TimeFromStringCall ==
    /\ call.op = "Time.from_string"
    /\ ret = NoRet
    /\ ret' = Time_from_string(call.arg)
    /\ UNCHANGED <<call, flowvars>>

InitTime == call \in TimeCalls /\ ret = NoRet /\ FlowIdle

NextTime == TimeFromStringCall

SpecTime == InitTime /\ [][NextTime]_vars

SIASearchParamsCall ==
    /\ call.op = "SIASearchParams"
    /\ ret = NoRet
    /\ ret' = SIASearchParams(call.arg)
    /\ UNCHANGED <<call, flowvars>>

InitParams == call \in ParamsCalls /\ ret = NoRet /\ FlowIdle

NextParams == SIASearchParamsCall

SpecParams == InitParams /\ [][NextParams]_vars

ParsePosCall ==
    /\ call.op = "parse_pos"
    /\ ret = NoRet
    /\ ret' = parse_pos(call.arg)
    /\ UNCHANGED <<call, flowvars>>

CircleCall ==
    /\ call.op = "Circle"
    /\ ret = NoRet
    /\ ret' = Circle(call.arg[1], call.arg[2], call.arg[3])
    /\ UNCHANGED <<call, flowvars>>

RangeCall ==
    /\ call.op = "Range"
    /\ ret = NoRet
    /\ ret' = Range(call.arg[1], call.arg[2], call.arg[3], call.arg[4])
    /\ UNCHANGED <<call, flowvars>>

PolygonCall ==
    /\ call.op = "Polygon"
    /\ ret = NoRet
    /\ ret' = Polygon(call.arg)
    /\ UNCHANGED <<call, flowvars>>

InitPos == call \in PosCalls /\ ret = NoRet /\ FlowIdle

NextPos == ParsePosCall \/ CircleCall \/ RangeCall \/ PolygonCall

SpecPos == InitPos /\ [][NextPos]_vars

(***************************************************************************)
(* perform_sia_query called with a directly built SIASearchParams          *)
(***************************************************************************)
PerformSiaQueryCall ==
    /\ call.op = "perform_sia_query"
    /\ ret = NoRet
    /\ query' = BuildQuery(params)
    /\ executed' = executed + 1
    /\ \E out \in QueryOutcomes(query', catalog) :
           /\ rows' = out.rows
           /\ ret' = [err |-> out.err, val |-> <<>>]
           /\ response' = IF out.err = "none" THEN generate_votable(out.rows)
                           ELSE NoResponse
    /\ UNCHANGED <<call, pc, req, session, closes, params, catalog>>

InitQuery ==
    /\ call = [op |-> "perform_sia_query", arg |-> <<>>]
    /\ ret = NoRet
    /\ pc = "idle"
    /\ req = NoRequest
    /\ session = "open"
    /\ closes = 0
    /\ executed = 0
    /\ params \in ParamSets
    /\ query = NoQuery
    /\ rows = <<>>
    /\ response = NoResponse
    /\ catalog \in Catalogs

NextQuery == PerformSiaQueryCall

SpecQuery == InitQuery /\ [][NextQuery]_vars

(***************************************************************************)
(* The request path: GET /sia                                              *)
(***************************************************************************)
\* the default of the MAXREC query parameter
MaxrecDefault == 100

\* int(s) as the framework reads an integer query parameter
IntParse(s) ==
    LET signed == s # <<>> /\ Head(s) \in {"-", "+"}
        sign == IF s # <<>> /\ Head(s) = "-" THEN -1 ELSE 1
        body == IF signed THEN Tail(s) ELSE s
    IN  IF AllDigits(body) THEN Ok(sign * NatVal(body, 0)) ELSE Raise("ValueError")

\* raw values of the query parameters of the requests of the runs
RawValues(f) ==
    CASE f = "POS" ->
            {<<"C", "I", "R", "C", "L", "E", " ", "1", "0", " ", "1", "0", " ", "3">>,
             <<"C", "I", "R", "C", "L", "E", " ", "4", "0", "0", " ", "1", "0", " ", "3">>,
             <<"C", "I", "R", "C", "L", "E", " ", "1", "0", " ", " ", "1", "0", " ", "3">>,
             <<"C", "I", "R", "C", "L", "E", " ", "1", "0", " ", "1", "0", " ", "n", "a", "n">>,
             <<"B", "O", "X", " ", "1", " ", "2">>,
             <<>>,
             <<"R", "A", "N", "G", "E", " ", "6", "0", " ", "4", "0", " ", "-", "3", "0", " ", "0">>,
             <<"P", "O", "L", "Y", "G", "O", "N", " ", "0", " ", "0", " ", "3", "0", " ", "0", " ", "0", " ", "3", "0">>,
             <<"P", "O", "L", "Y", "G", "O", "N", " ", "0", " ", "0", " ", "3", "0", " ", "0">>}
      [] f \in RangeFields ->
            {<<"1", " ", "2">>,
             <<"5", " ", "I", "n", "f">>,
             <<"1">>,
             <<"a", "b", "c", " ", "2">>,
             <<"n", "a", "n", " ", "1">>}
      [] f = "TIME" ->
            {<<"5", " ", "9">>,
             <<"0">>,
             <<"0", " ", "0">>,
             <<"1", " ", "2", " ", "3">>,
             <<"a", "b", "c">>}
      [] f = "CALIB" ->
            {<<"1">>,
             <<"2">>,
             <<"5">>,
             <<"a", "b", "c">>}
      [] f = "POL" -> {"I", "LR", "ZZ"}
      [] f = "DPTYPE" -> {"image", "cube", "spectrum"}
      [] f = "ID" -> {"obs-1", "obs-2"}
      [] f = "COLLECTION" -> {"SurveyA", "SurveyB"}
      [] f = "FACILITY" -> {"HST", "JWST"}
      [] f = "INSTRUMENT" -> {"ACS", "NIRCam"}
      [] f = "TARGET" -> {"M31", "M42"}
      [] f = "FORMAT" -> {"image/fits", "image/jpeg"}

\* a raw value of each field that parses and validates
RawGood(f) ==
    CASE f = "POS" -> <<"C", "I", "R", "C", "L", "E", " ", "1", "0", " ", "1", "0", " ", "3">>
      [] f \in RangeFields -> <<"1", " ", "2">>
      [] f = "TIME" -> <<"5", " ", "9">>
      [] f = "CALIB" -> <<"1">>
      [] f = "POL" -> "I"
      [] f = "DPTYPE" -> "image"
      [] f = "ID" -> "obs-1"
      [] f = "COLLECTION" -> "SurveyA"
      [] f = "FACILITY" -> "HST"
      [] f = "INSTRUMENT" -> "ACS"
      [] f = "TARGET" -> "M31"
      [] f = "FORMAT" -> "image/fits"

\* a parameter left out, given once, or given twice
RawChoices(f) ==
    {Absent}
    \cup {Some(<<x>>) : x \in RawValues(f)}
    \cup {Some(<<RawGood(f), x>>) : x \in RawValues(f)}

RawSecondChoices ==
    {<<"COLLECTION", Absent>>,
     <<"COLLECTION", Some(<<"SurveyA", "SurveyB">>)>>,
     <<"POL", Some(<<"ZZ">>)>>,
     <<"DPTYPE", Some(<<"spectrum">>)>>,
     <<"BAND", Some(<<<<"1", " ", "2">>>>)>>}

RawMaxrecChoices ==
    {Absent} \cup {Some(x) : x \in {<<"0">>,
             <<"1">>,
             <<"2">>,
             <<"-", "1">>,
             <<"a", "b", "c">>}}

RequestsWith(f) ==
    {[[NoRequest EXCEPT ![sc[1]] = sc[2]] EXCEPT ![f] = fc, !["MAXREC"] = m] :
        fc \in RawChoices(f), sc \in RawSecondChoices, m \in RawMaxrecChoices}

Requests == UNION {RequestsWith(f) : f \in ListFields}

\* the query parameters the framework refuses before sia_request runs:
\* DPTYPE is declared list[DataProductType], CALIB list[int], MAXREC int, ge=0
FrameworkErrors(r) ==
    {<<"DPTYPE", i>> : i \in {j \in 1..Len(r.DPTYPE.v) : r.DPTYPE.v[j] \notin DataProductType}}
    \cup {<<"CALIB", i>> : i \in {j \in 1..Len(r.CALIB.v) : IntParse(r.CALIB.v[j]).err # "none"}}
    \cup (IF r.MAXREC.some
             /\ (IntParse(r.MAXREC.v).err # "none" \/ IntParse(r.MAXREC.v).val < 0)
          THEN {<<"MAXREC", 0>>} ELSE {})

\* the arguments sia_request is called with
HandlerArgs(r) ==
    [f \in ListFields \cup {"MAXREC"} |->
        IF f = "MAXREC"
        THEN (IF r.MAXREC.some THEN Some(IntParse(r.MAXREC.v).val) ELSE Some(MaxrecDefault))
        ELSE IF f = "CALIB" /\ r.CALIB.some
        THEN Some([i \in 1..Len(r.CALIB.v) |-> IntParse(r.CALIB.v[i]).val])
        ELSE r[f]]

\* exceptions.py
votable_error_response(n, status_code) ==
    [status |-> status_code, kind |-> "votable-error", messages |-> n]

general_exception_handler == votable_error_response(1, 500)

\* http_exception_handler: the status of the HTTPException, its detail as the
\* one message
http_exception_handler(status_code) == votable_error_response(1, status_code)

\* validation_exception_handler with the message of the first error only
validation_exception_handler_first(errors) == votable_error_response(1, 400)

\* validation_exception_handler: one "Error in <loc>: <msg>" for each error,
\* joined into the message of the document
validation_exception_handler(errors) == votable_error_response(Cardinality(errors), 400)

\* the request lines of the runs: the route of sia_request, a path without a
\* route (404) and a method the route does not take (405)
RequestLines ==
    {[op |-> "GET /sia", arg |-> <<>>], [op |-> "GET /missing", arg |-> <<>>],
     [op |-> "POST /sia", arg |-> <<>>]}

\* no route takes the request: the router raises an HTTPException, which
\* http_exception_handler answers; no dependency of sia_request has run
HttpError ==
    /\ pc = "idle"
    /\ call.op # "GET /sia"
    /\ response' = http_exception_handler(IF call.op = "GET /missing" THEN 404 ELSE 405)
    /\ pc' = "done"
    /\ UNCHANGED <<call, ret, req, session, closes, executed, params, query, rows,
                   catalog>>

ReceiveRequest ==
    /\ pc = "idle"
    /\ call.op = "GET /sia"
    /\ req' \in Requests
    /\ pc' = "received"
    /\ UNCHANGED <<call, ret, session, closes, executed, params, query, rows, response,
                   catalog>>

\* get_session up to its yield
GetSession ==
    /\ pc = "received"
    /\ session' = "open"
    /\ pc' = "validating"
    /\ UNCHANGED <<call, ret, req, closes, executed, params, query, rows, response,
                   catalog>>

\* the framework reads the declared query parameters
ValidateRequest ==
    /\ pc = "validating"
    /\ \/ /\ FrameworkErrors(req) # {}
          /\ response' = validation_exception_handler(FrameworkErrors(req))
          /\ pc' = "closing"
       \/ /\ FrameworkErrors(req) = {}
          /\ pc' = "handler"
          /\ UNCHANGED response
    /\ UNCHANGED <<call, ret, req, session, closes, executed, params, query, rows,
                   catalog>>

\* SiaRequest with the query run before the outcome of SIASearchParams(...) is
\* looked at
SiaRequestQueryFirst ==
    /\ pc = "handler"
    /\ LET made == SIASearchParams(HandlerArgs(req))
           built == IF made.err = "none" THEN made.val ELSE AllAbsent
       IN  /\ params' = built
           /\ query' = BuildQuery(built)
           /\ executed' = executed + 1
           /\ \E out \in QueryOutcomes(query', catalog) :
                  /\ rows' = out.rows
                  /\ response' = IF made.err = "none" /\ out.err = "none"
                                  THEN generate_votable(out.rows)
                                  ELSE general_exception_handler
    /\ pc' = "closing"
    /\ UNCHANGED <<call, ret, req, session, closes, catalog>>

\* sia_request: SIASearchParams(...), then perform_sia_query(session, query_params)
SiaRequest ==
    /\ pc = "handler"
    /\ \E made \in {SIASearchParams(HandlerArgs(req))} :
           \/ /\ made.err # "none"
              /\ response' = general_exception_handler
              /\ UNCHANGED <<executed, params, query, rows>>
           \/ /\ made.err = "none"
              /\ params' = made.val
              /\ query' = BuildQuery(made.val)
              /\ executed' = executed + 1
              /\ \E out \in QueryOutcomes(query', catalog) :
                     /\ rows' = out.rows
                     /\ response' = IF out.err = "none" THEN generate_votable(out.rows)
                                     ELSE general_exception_handler
           \/ /\ made.err = "none"
              /\ params' = made.val
              /\ query' = BuildQuery(made.val)
              /\ executed' = executed + 1
              /\ response' = general_exception_handler
              /\ UNCHANGED rows
    /\ pc' = "closing"
    /\ UNCHANGED <<call, ret, req, session, closes, catalog>>

\* get_session without its try/finally: db.close() after the yield runs only
\* when the request raised nothing
CloseSessionNoFinally ==
    /\ pc = "closing"
    /\ session' = IF response.status = 200 THEN "closed" ELSE session
    /\ closes' = IF response.status = 200 THEN closes + 1 ELSE closes
    /\ pc' = "done"
    /\ UNCHANGED <<call, ret, req, executed, params, query, rows, response, catalog>>

\* get_session after its yield: finally db.close()
CloseSession ==
    /\ pc = "closing"
    /\ session' = "closed"
    /\ closes' = closes + 1
    /\ pc' = "done"
    /\ UNCHANGED <<call, ret, req, executed, params, query, rows, response, catalog>>

Init ==
    /\ call \in RequestLines
    /\ ret = NoRet
    /\ pc = "idle"
    /\ req = NoRequest
    /\ session = "none"
    /\ closes = 0
    /\ executed = 0
    /\ params = NoParams
    /\ query = NoQuery
    /\ rows = <<>>
    /\ response = NoResponse
    /\ catalog \in {{}, AllRows}

Next ==
    \/ ReceiveRequest
    \/ HttpError
    \/ GetSession
    \/ ValidateRequest
    \/ SiaRequest
    \/ CloseSession

Spec == Init /\ [][Next]_vars

\* the server runs a request it has taken to its end: the dependency, the
\* validation of the parameters, sia_request and the exit of the dependency
\* each run once they can
FairSpec ==
    /\ Spec
    /\ WF_vars(GetSession)
    /\ WF_vars(ValidateRequest)
    /\ WF_vars(SiaRequest)
    /\ WF_vars(CloseSession)

(***************************************************************************)
(* Claims                                                                  *)
(***************************************************************************)
Returned == ret.err # "pending"

\* a token MinMaxRange.from_string is to accept: the literal Inf or -Inf, or
\* a finite float
FiniteOrLiteral(tok) ==
    \/ tok \in {<<"I","n","f">>, <<"-","I","n","f">>}
    \/ (float(tok).err = "none" /\ IsFinite(float(tok).val))

\* C8: MinMaxRange.from_string(s) succeeds only if s splits on whitespace
\* into exactly 2 tokens, each the literal Inf/-Inf (kept as the sentinel) or
\* a finite float; every other string fails with a parse error (ValueError).
C8_FromStringFiniteOrLiteral ==
    (call.op = "MinMaxRange.from_string" /\ Returned) =>
        LET tokens == Split(call.arg)
            wellFormed == Len(tokens) = 2
                          /\ \A i \in 1..Len(tokens) : FiniteOrLiteral(tokens[i])
        IN  /\ ret.err = "none" => wellFormed
            /\ ret.err # "none" => ret.err = "ValueError"
            /\ (ret.err = "none" /\ tokens[1] = <<"I","n","f">>) => ret.val.min = LitInf

\* the grammar of a POS string: a keyword, then 3 (CIRCLE), 4 (RANGE) or an
\* even count >= 6 (POLYGON) of numeric tokens, split on whitespace
PosGrammarOk(s) ==
    LET toks == Split(s)
        n == Len(toks) - 1
    IN  /\ toks # <<>>
        /\ \A i \in 2..Len(toks) : float(toks[i]).err = "none"
        /\ \/ Upper(toks[1]) = KwCircle /\ n = 3
           \/ Upper(toks[1]) = KwRange /\ n = 4
           \/ Upper(toks[1]) = KwPolygon /\ n >= 6 /\ n % 2 = 0

ShapeKeyword(name) ==
    IF name = "CIRCLE" THEN KwCircle
    ELSE IF name = "RANGE" THEN KwRange
    ELSE KwPolygon

\* C9: parse_pos(s) picks the variant by the first whitespace-delimited token,
\* case-insensitively, and succeeds exactly when the remaining tokens are
\* numeric and 3 (CIRCLE), 4 (RANGE) or an even count >= 6 (POLYGON), however
\* much whitespace separates or surrounds them (a shape out of its coordinate
\* bounds may still be refused by its constructor); every other string fails
\* with a parse error and no other kind of error.
C9_ParsePosGrammar ==
    (call.op = "parse_pos" /\ Returned) =>
        /\ PosGrammarOk(call.arg) => ret.err \in {"none", "ValidationError"}
        /\ ~PosGrammarOk(call.arg) => ret.err \in {"ValueError", "ValidationError"}
        /\ ret.err = "none" => ShapeKeyword(ret.val.shape) = Upper(Split(call.arg)[1])

ShapeLons(sh) ==
    IF sh.shape = "CIRCLE" THEN {sh.longitude}
    ELSE IF sh.shape = "RANGE" THEN {sh.lon1, sh.lon2}
    ELSE {sh.coordinates[i] : i \in {j \in 1..Len(sh.coordinates) : j % 2 = 1}}

ShapeLats(sh) ==
    IF sh.shape = "CIRCLE" THEN {sh.latitude}
    ELSE IF sh.shape = "RANGE" THEN {sh.lat1, sh.lat2}
    ELSE {sh.coordinates[i] : i \in {j \in 1..Len(sh.coordinates) : j % 2 = 0}}

\* C10: every successfully constructed Circle, Range or Polygon, built from a
\* POS string or directly, has its longitudes in [0,360] and its latitudes in
\* [-90,90].
C10_ShapesInBounds ==
    (call.op \in {"parse_pos", "Circle", "Range", "Polygon"} /\ ret.err = "none") =>
        /\ \A x \in ShapeLons(ret.val) : LonInBounds(x)
        /\ \A x \in ShapeLats(ret.val) : LatInBounds(x)

Performed == call.op = "perform_sia_query" /\ ret.err = "none"

\* the fields that supplied at least one value
Supplied(p) == {f \in ListFields : p[f].some /\ Len(p[f].v) >= 1}

FieldOfColumn(c) ==
    IF c \in {"s_ra", "s_dec"} THEN "POS"
    ELSE IF c \in {"t_min", "t_max"} THEN "TIME"
    ELSE CHOOSE f \in RangeFields \cup EnumFields : ColumnOf[f] = c

ConstrainedFields(q) ==
    {FieldOfColumn(c) : c \in UNION {Columns(q.filters[i]) : i \in 1..Len(q.filters)}}

\* the filters of the query that read the columns of field f
FiltersOn(q, f) ==
    {i \in 1..Len(q.filters) :
        \E c \in Columns(q.filters[i]) : FieldOfColumn(c) = f}

RowIds(rs) == {rs[i].id : i \in 1..Len(rs)}

\* C1: with MAXREC = N supplied, N >= 0, perform_sia_query returns at most N
\* records whatever the catalog holds; MAXREC = 0 returns no record.
C1_MaxrecCapsResult ==
    (Performed /\ params.MAXREC.some) => Len(rows) <= params.MAXREC.v

\* C3: when some OR-combined field holds an empty but non-absent list,
\* perform_sia_query fails fast with a translation error and executes no query.
C3_EmptyListFailsFast ==
    (call.op = "perform_sia_query" /\ ret.err # "pending"
     /\ \E f \in ListFields : params[f].some /\ params[f].v = <<>>) =>
        ret.err = "TranslationError"

\* C4: the fields the translated query constrains are exactly the fields that
\* supplied at least one value, one filter for each and none for an absent
\* field; with every field absent the query has no filter and matches every
\* row of the catalog.
C4_AbsentFieldsUnconstrained ==
    Performed =>
        /\ ConstrainedFields(query) = Supplied(params)
        /\ Len(query.filters) = Cardinality(Supplied(params))
        /\ Supplied(params) = {} =>
               (query.filters = <<>> /\ Matching(query, catalog) = catalog)

C4_Witness ==
    /\ Performed
    /\ \A f \in ListFields : ~params[f].some
    /\ ~params.MAXREC.some
    /\ catalog = AllRows
    /\ RowIds(rows) = {1, 2, 3, 4, 5}

Min(a, b) == IF a <= b THEN a ELSE b
Max(a, b) == IF a <= b THEN b ELSE a

\* the region of a shape, from the shape's own fields
InRegion(sh, ra, dec) ==
    IF sh.shape = "CIRCLE"
    THEN (ra - sh.longitude.v) * (ra - sh.longitude.v)
           + (dec - sh.latitude.v) * (dec - sh.latitude.v) <= sh.radius.v * sh.radius.v
    ELSE IF sh.shape = "RANGE"
    THEN /\ Min(sh.lon1.v, sh.lon2.v) <= ra /\ ra <= Max(sh.lon1.v, sh.lon2.v)
         /\ Min(sh.lat1.v, sh.lat2.v) <= dec /\ dec <= Max(sh.lat1.v, sh.lat2.v)
    ELSE InPolygon(ra, dec,
                   [i \in 1..(Len(sh.coordinates) \div 2) |->
                       <<sh.coordinates[2 * i - 1].v, sh.coordinates[2 * i].v>>])

\* x lies in the closed interval [r.min, r.max], an infinite bound leaving
\* that side open
InClosedInterval(x, r) ==
    /\ x.k = "fin"
    /\ \/ r.min \in {LitNegInf, NegInf}
       \/ r.min.k = "fin" /\ r.min.v <= x.v
    /\ \/ r.max \in {LitInf, PosInf}
       \/ r.max.k = "fin" /\ x.v <= r.max.v

\* the row's interval [t_min, t_max] meets the Time t
TimeMatches(t, row) ==
    IF t.end_time.some
    THEN /\ row.t_max.k = "fin" /\ row.t_max.v >= t.start_time.v
         /\ row.t_min.k = "fin" /\ row.t_min.v <= t.end_time.v.v
    ELSE row.t_max.k = "fin" /\ row.t_max.v >= t.start_time.v

\* the row matches one value of field f
ValueMatches(f, x, row) ==
    IF f = "POS"
    THEN row.s_ra.k = "fin" /\ row.s_dec.k = "fin" /\ InRegion(x, row.s_ra.v, row.s_dec.v)
    ELSE IF f = "TIME" THEN TimeMatches(x, row)
    ELSE IF f \in RangeFields THEN InClosedInterval(row[ColumnOf[f]], x)
    ELSE row[ColumnOf[f]].k = x.k /\ row[ColumnOf[f]].v = x.v

\* C5: a catalog record satisfies the translated predicate if and only if, for
\* every field that supplied at least one value, it matches at least one of
\* that field's values (OR within a field, AND across fields); the records
\* returned are among those, and all of them when no cap is set.
C5_AndAcrossOrWithin ==
    Performed =>
        /\ \A row \in catalog :
               row \in Matching(query, catalog) <=>
                   \A f \in Supplied(params) :
                       \E i \in 1..Len(params[f].v) : ValueMatches(f, params[f].v[i], row)
        /\ RowIds(rows) \subseteq {r.id : r \in Matching(query, catalog)}
        /\ ~query.limit.some => RowIds(rows) = {r.id : r \in Matching(query, catalog)}

C5_Witness ==
    /\ Performed
    /\ params.POS = Some(<<CircleA>>)
    /\ params.COLLECTION = Some(<<Str("SurveyA"), Str("SurveyB")>>)
    /\ catalog = AllRows
    /\ ~params.MAXREC.some
    /\ RowIds(rows) = {1}

\* C6: for each range-valued field and every list of MinMaxRange values, the
\* field's filter holds for a record exactly when the record's attribute lies
\* in the closed interval [min, max] of at least one supplied range, an Inf or
\* -Inf bound leaving that side open.
C6_RangeFieldsClosedIntervals ==
    Performed =>
        \A f \in RangeFields \cap Supplied(params) :
            /\ Cardinality(FiltersOn(query, f)) = 1
            /\ \A i \in FiltersOn(query, f) :
                   /\ Columns(query.filters[i]) = {ColumnOf[f]}
                   /\ \A row \in AllRows :
                          Eval(query.filters[i], row) <=>
                              \E j \in 1..Len(params[f].v) :
                                  InClosedInterval(row[ColumnOf[f]], params[f].v[j])

C6_Witness ==
    /\ Performed
    /\ params.BAND = Some(<<MinMax(Fin(1), Fin(2)), MinMax(Fin(5), LitInf)>>)
    /\ Supplied(params) = {"BAND"}
    /\ catalog = AllRows
    /\ ~params.MAXREC.some
    /\ RowIds(rows) = {1, 2, 4}

\* C7: for every list of TIME values, the TIME filter holds for a record
\* exactly when, for at least one supplied Time t, either t has an end time
\* and t_max >= t.start_time and t_min <= t.end_time, or t has no end time and
\* t_max >= t.start_time; an end time of 0 is an end time.
C7_TimeOverlapOrOpenEnded ==
    (Performed /\ "TIME" \in Supplied(params)) =>
            /\ Cardinality(FiltersOn(query, "TIME")) = 1
            /\ \A i \in FiltersOn(query, "TIME") :
                   \A row \in AllRows :
                       Eval(query.filters[i], row) <=>
                           \E j \in 1..Len(params.TIME.v) :
                               TimeMatches(params.TIME.v[j], row)

C7_Witness ==
    /\ Performed
    /\ params.TIME = Some(<<Time(Fin(0), Some(Fin(0))), Time(Fin(9), NoFloat)>>)
    /\ Supplied(params) = {"TIME"}
    /\ catalog = AllRows
    /\ ~params.MAXREC.some
    /\ RowIds(rows) = {2, 3}

\* the request holds a parameter value that the framework refuses or that
\* makes the construction of SIASearchParams fail
RequestHasParamError(r) ==
    \/ FrameworkErrors(r) # {}
    \/ SIASearchParams(HandlerArgs(r)).err # "none"

\* C2: every request with a parameter value that fails parsing or validation
\* is answered with status 400, whether the framework or the construction of
\* SIASearchParams refuses it; 500 is kept for translation and unhandled
\* failures.
C2_ParamErrorsAnswered400 ==
    (pc \in {"closing", "done"} /\ RequestHasParamError(req)) => response.status = 400

\* C11: in every handling of a request, a parameter that fails parsing or
\* validation (refused by the framework, or failing the construction of
\* SIASearchParams) means that no statement is handed to the row store and no
\* query is built; a statement is handed over only once SIASearchParams has
\* been constructed from all the supplied parameters.
C11_NoQueryOnParamError ==
    /\ RequestHasParamError(req) =>
           (executed = 0 /\ query = NoQuery /\ params = NoParams /\ rows = <<>>)
    /\ executed > 0 =>
           /\ FrameworkErrors(req) = {}
           /\ SIASearchParams(HandlerArgs(req)) = Ok(params)

C11_Witness ==
    /\ pc = "done"
    /\ FrameworkErrors(req) = {}
    /\ SIASearchParams(HandlerArgs(req)).err # "none"
    /\ response.status = 500
    /\ executed = 0

\* C12: Time.from_string(s) splits s on whitespace; exactly 1 numeric token
\* gives {start_time, end_time absent}, exactly 2 numeric tokens give
\* {start_time, end_time}; every other count of tokens (0, 3 or more) and every
\* token float() does not take as a number fail with a parse error (ValueError).
C12_TimeFromString ==
    (call.op = "Time.from_string" /\ Returned) =>
        LET tokens == Split(call.arg)
            numeric == \A i \in 1..Len(tokens) : float(tokens[i]).err = "none"
        IN  /\ (Len(tokens) = 1 /\ numeric) =>
                   ret = Ok([start_time |-> float(tokens[1]).val, end_time |-> NoFloat])
            /\ (Len(tokens) = 2 /\ numeric) =>
                   ret = Ok([start_time |-> float(tokens[1]).val,
                             end_time |-> Some(float(tokens[2]).val)])
            /\ (Len(tokens) \notin {1, 2} \/ ~numeric) => ret.err = "ValueError"

C12_Witness ==
    /\ call.op = "Time.from_string"
    /\ call.arg = <<" ", "0", " ", " ", "5">>
    /\ ret = Ok([start_time |-> Fin(0), end_time |-> Some(Fin(5))])

\* the Range with lon1 and lon2 exchanged, and with lat1 and lat2 exchanged
SwapLon(r) == [r EXCEPT !.lon1 = r.lon2, !.lon2 = r.lon1]
SwapLat(r) == [r EXCEPT !.lat1 = r.lat2, !.lat2 = r.lat1]

\* C13: for every Range of POS the box test handed to the row store has the
\* centre ((lon1 + lon2) / 2, (lat1 + lat2) / 2) and the half widths
\* (|lon2 - lon1| / 2, |lat2 - lat1| / 2), each written here as twice its
\* value, and is the same test when lon1 and lon2, or lat1 and lat2, are
\* exchanged; for every Polygon the vertices handed over are the consecutive
\* (lon, lat) pairs of its coordinates, in order, none left out.
C13_BoxAndPolygonArguments ==
    (Performed /\ "POS" \in Supplied(params)) =>
        /\ query.filters[1].op = "or"
        /\ Len(query.filters[1].args) = Len(params.POS.v)
        /\ \A i \in 1..Len(params.POS.v) :
               LET pos == params.POS.v[i]
                   clause == query.filters[1].args[i]
               IN  /\ pos.shape = "RANGE" =>
                          /\ clause.fn = "q3c_box_query"
                          /\ clause.args[1].v = pos.lon1.v + pos.lon2.v
                          /\ clause.args[2].v = pos.lat1.v + pos.lat2.v
                          /\ clause.args[3].v =
                                 Max(pos.lon1.v, pos.lon2.v) - Min(pos.lon1.v, pos.lon2.v)
                          /\ clause.args[4].v =
                                 Max(pos.lat1.v, pos.lat2.v) - Min(pos.lat1.v, pos.lat2.v)
                          /\ clause = PosClause(SwapLon(pos))
                          /\ clause = PosClause(SwapLat(pos))
                   /\ pos.shape = "POLYGON" =>
                          /\ clause.fn = "q3c_poly_query"
                          /\ 2 * Len(clause.args) = Len(pos.coordinates)
                          /\ \A k \in 1..Len(pos.coordinates) :
                                 clause.args[(k + 1) \div 2][2 - (k % 2)] = pos.coordinates[k]

C13_Witness ==
    /\ Performed
    /\ params.POS = Some(<<RangeB, PolygonP>>)
    /\ query.filters[1] =
           Or(<<Text("q3c_box_query", <<Fin(100), Fin(-30), Fin(20), Fin(30)>>),
                Text("q3c_poly_query",
                     <<<<Fin(0), Fin(0)>>, <<Fin(30), Fin(0)>>, <<Fin(0), Fin(30)>>>>)>>)

\* the values of an optional list all lie in the set S
AllIn(opt, S) == opt.some => \A i \in 1..Len(opt.v) : opt.v[i] \in S

\* C14: SIASearchParams(...) succeeds only if every POL value is one of the 14
\* polarization labels, every DPTYPE value is "image" or "cube", every CALIB
\* value is 1, 2 or 3 and MAXREC, if present, is an integer >= 0; any value
\* outside these sets makes the construction fail (with a ValidationError),
\* and with nothing else supplied the construction then succeeds.
C14_ClosedEnumerations ==
    (call.op = "SIASearchParams" /\ Returned) =>
        LET inSets ==
                /\ AllIn(call.arg.POL, {"I", "Q", "U", "V", "RR", "LL", "RL", "LR",
                                        "XX", "YY", "XY", "YX", "POLI", "POLA"})
                /\ AllIn(call.arg.DPTYPE, {"image", "cube"})
                /\ AllIn(call.arg.CALIB, {1, 2, 3})
                /\ (call.arg.MAXREC.some => call.arg.MAXREC.v >= 0)
        IN  /\ ret.err = "none" <=> inSets
            /\ ret.err # "none" => ret.err = "ValidationError"

C14_Witness ==
    /\ call.op = "SIASearchParams"
    /\ call.arg.POL = Some(<<"LR", "YX">>)
    /\ call.arg.DPTYPE = Some(<<"image", "cube">>)
    /\ call.arg.CALIB = Some(<<2, 3>>)
    /\ call.arg.MAXREC = Some(0)
    /\ ret.err = "none"

Answered == response # NoResponse

\* C15: every error path is answered with the error document, one message and
\* a status code, never with the result document: a request no route takes
\* (its HTTP status), a request whose parameters the framework refuses (400,
\* the message made of exactly one part for each of the k failing locations),
\* a failing construction of SIASearchParams and a failing query (500).
C15_ErrorDocumentOnErrorPaths ==
    Answered =>
        /\ call.op # "GET /sia" =>
               /\ response.kind = "votable-error"
               /\ response.status \in {404, 405}
               /\ response.messages = 1
        /\ FrameworkErrors(req) # {} =>
               response = [status |-> 400, kind |-> "votable-error",
                           messages |-> Cardinality(FrameworkErrors(req))]
        /\ (FrameworkErrors(req) = {} /\ SIASearchParams(HandlerArgs(req)).err # "none") =>
               response = [status |-> 500, kind |-> "votable-error", messages |-> 1]
        /\ response.status # 200 =>
               (response.kind = "votable-error" /\ response.messages >= 1)
        /\ response.kind \in {"votable", "votable-empty"} =>
               (response.status = 200 /\ executed = 1 /\ ~RequestHasParamError(req))

C15_Witness ==
    /\ pc = "done"
    /\ Cardinality(FrameworkErrors(req)) >= 2
    /\ response = [status |-> 400, kind |-> "votable-error",
                   messages |-> Cardinality(FrameworkErrors(req))]

\* C16: every record mapping perform_sia_query hands to generate_votable holds
\* catalog attribute keys only: the ORM's _sa_instance_state entry of a row's
\* __dict__ has been removed from each of them.
C16_NoInstanceStateInMappings ==
    Performed =>
        \A i \in 1..Len(rows) :
            /\ "_sa_instance_state" \notin DOMAIN rows[i]
            /\ DOMAIN rows[i] \subseteq DOMAIN Row1

\* C17: every session get_session opens for a request is eventually closed,
\* and closed exactly once, on every path of the request (the framework
\* refuses a parameter, SIASearchParams fails, the query raises, the query
\* succeeds): close() never runs twice, and a session is closed exactly when
\* close() has run once.
C17_SessionClosedExactlyOnce ==
    /\ [](closes <= 1)
    /\ []((session = "closed") <=> (closes = 1))
    /\ [](pc = "done" => session # "open")
    /\ (session = "open") ~> (session = "closed" /\ closes = 1)

C17_Witness ==
    /\ pc = "done"
    /\ session = "closed"
    /\ closes = 1
    /\ executed = 1
    /\ response = [status |-> 500, kind |-> "votable-error", messages |-> 1]

====
